---------------------------- MODULE Spec2Model ----------------------------
(***************************************************************************)
(* Reed-Solomon erasure codec over GF(2^8): construction of the generator  *)
(* matrix, encode_parity, is_parity_correct and decode_missing of lib.rs,  *)
(* over shards held as reference-counted byte buffers.                     *)
(*                                                                         *)
(* Vectors and buffers are functions over 0..n-1, as the code indexes them.*)
(***************************************************************************)
EXTENDS Integers, Sequences, FiniteSets, TLC

\* ------------------------------------------------------------------ bounds
\* Codecs with data_shards + parity_shards <= MaxTotal carry shards.
MaxTotal == 3
\* Shards are 0..MaxLen bytes long.
MaxLen == 2

\* Bytes the caller writes into data shards.
ByteVals == {0, 1, 255}
\* Bytes a parity buffer holds before it is encoded into.
ParityFill == {0, 255}
\* Bytes of the data shards of a second shard vector.
OtherVals == {1, 255}

\* Option<usize>::None of the offset and byte_count arguments.
None == -1
\* Option<Shard>::None in a shard vector (buffer ids start at 1).
NoShard == 0

VLen(v) == Cardinality(DOMAIN v)

\* ------------------------------------------------ GF(2^8), polynomial 0x11D
FIELD_SIZE == 256
GENERATING_POLYNOMIAL == 285

RECURSIVE XorBits(_, _, _)
XorBits(a, b, n) ==
    IF n = 0 THEN 0
    ELSE ((a + b) % 2) + 2 * XorBits(a \div 2, b \div 2, n - 1)

XOR_TABLE == [a \in 0..255 |-> [b \in 0..255 |-> XorBits(a, b, 8)]]

\* galois add: bitwise XOR
add(a, b) == XOR_TABLE[a][b]

\* multiplication by the generator 2, reduced by the polynomial
Times2(a) ==
    IF 2 * a >= FIELD_SIZE THEN add((2 * a) % FIELD_SIZE, GENERATING_POLYNOMIAL % FIELD_SIZE)
    ELSE 2 * a

RECURSIVE ExpSeq(_)
ExpSeq(n) ==
    IF n = 0 THEN <<1>>
    ELSE LET s == ExpSeq(n - 1) IN Append(s, Times2(s[n]))

\* EXP_TABLE[i] = 2^i for i in 0..254
EXP_TABLE == LET s == ExpSeq(254) IN [i \in 0..254 |-> s[i + 1]]

\* LOG_TABLE[a] = the i with 2^i = a, for a in 1..255
LOG_TABLE == [a \in 1..255 |-> CHOOSE i \in 0..254 : EXP_TABLE[i] = a]

mul(a, b) ==
    IF a = 0 \/ b = 0 THEN 0
    ELSE EXP_TABLE[(LOG_TABLE[a] + LOG_TABLE[b]) % 255]

\* div is called with b # 0 only (a pivot)
div(a, b) ==
    IF a = 0 THEN 0
    ELSE EXP_TABLE[(LOG_TABLE[a] - LOG_TABLE[b] + 255) % 255]

exp(a, n) ==
    IF n = 0 THEN 1
    ELSE IF a = 0 THEN 0
    ELSE EXP_TABLE[(LOG_TABLE[a] * n) % 255]

MULT_TABLE == [a \in 0..255 |-> [b \in 0..255 |-> mul(a, b)]]

\* ------------------------------------------------------------------ Matrix
\* A matrix is a function 0..rows-1 -> (0..cols-1 -> byte).
identity(n) == [r \in 0..n - 1 |-> [c \in 0..n - 1 |-> IF r = c THEN 1 ELSE 0]]

row_count(m) == VLen(m)

column_count(m) == VLen(m[0])

vandermonde(rows, cols) ==
    [r \in 0..rows - 1 |-> [c \in 0..cols - 1 |-> exp(r, c)]]

sub_matrix(m, rmin, cmin, rmax, cmax) ==
    [r \in 0..(rmax - rmin) - 1 |-> [c \in 0..(cmax - cmin) - 1 |-> m[rmin + r][cmin + c]]]

RECURSIVE DotFrom(_, _, _, _, _)
DotFrom(m, rhs, r, c, i) ==
    IF i = column_count(m) THEN 0
    ELSE add(mul(m[r][i], rhs[i][c]), DotFrom(m, rhs, r, c, i + 1))

multiply(m, rhs) ==
    [r \in 0..row_count(m) - 1 |->
        [c \in 0..column_count(rhs) - 1 |-> DotFrom(m, rhs, r, c, 0)]]

augment(m, rhs) ==
    [r \in 0..row_count(m) - 1 |->
        [c \in 0..(column_count(m) + column_count(rhs)) - 1 |->
            IF c < column_count(m) THEN m[r][c] ELSE rhs[r][c - column_count(m)]]]

swap_rows(m, r1, r2) ==
    [r \in DOMAIN m |-> IF r = r1 THEN m[r2] ELSE IF r = r2 THEN m[r1] ELSE m[r]]

\* One pivot column of Gauss-Jordan: swap a non-zero pivot in, scale the
\* pivot row to 1, clear the column in every other row.
PivotRows(m, c) == {r \in DOMAIN m : r >= c /\ m[r][c] # 0}

ScaleRow(row, p) == [k \in DOMAIN row |-> div(row[k], p)]

Eliminate(m, c) ==
    [r \in DOMAIN m |->
        IF r = c \/ m[r][c] = 0 THEN m[r]
        ELSE [k \in DOMAIN m[r] |-> add(m[r][k], mul(m[r][c], m[c][k]))]]

RECURSIVE gaussian_elim(_, _)
gaussian_elim(m, c) ==
    IF c = row_count(m) THEN [ok |-> TRUE, m |-> m]
    ELSE IF PivotRows(m, c) = {} THEN [ok |-> FALSE, m |-> m]
    ELSE LET p == CHOOSE r \in PivotRows(m, c) : \A q \in PivotRows(m, c) : r <= q
             s == swap_rows(m, c, p)
             n == [s EXCEPT ![c] = ScaleRow(s[c], s[c][c])]
         IN  gaussian_elim(Eliminate(n, c), c + 1)

\* invert: [ok |-> TRUE, m |-> inverse] or [ok |-> FALSE] for SingularMatrix
invert(m) ==
    LET n == row_count(m)
        g == gaussian_elim(augment(m, identity(n)), 0)
    IN  IF g.ok THEN [ok |-> TRUE, m |-> sub_matrix(g.m, 0, n, n, 2 * n)]
        ELSE [ok |-> FALSE, m |-> m]

\* ------------------------------------------------------------- ReedSolomon
\* (mutant) the vandermonde matrix is multiplied by its top square, not by
\* the inverse of it
build_matrix_top_not_inverted(data_shards, total_shards) ==
    LET v   == vandermonde(total_shards, data_shards)
        top == sub_matrix(v, 0, 0, data_shards, data_shards)
    IN  [ok |-> invert(top).ok, m |-> multiply(v, top)]

\* build_matrix: vandermonde * inverse of its top square; the unwrap panics
\* on a singular top.
build_matrix(data_shards, total_shards) ==
    LET v   == vandermonde(total_shards, data_shards)
        top == sub_matrix(v, 0, 0, data_shards, data_shards)
        inv == invert(top)
    IN  IF inv.ok THEN [ok |-> TRUE, m |-> multiply(v, inv.m)]
        ELSE [ok |-> FALSE, m |-> v]

\* The K parity rows of the generator matrix: rows N..N+K-1.
parity_rows(r) ==
    [i \in 0..r.parity_shard_count - 1 |-> r.matrix[r.data_shard_count + i]]

NoCodec ==
    [built |-> FALSE, data_shard_count |-> 0, parity_shard_count |-> 0,
     total_shard_count |-> 0, matrix |-> <<>>]

\* (mutant) 256 shards are already too many
new_rejects_256(data_shards, parity_shards) ==
    IF data_shards = 0 THEN [out |-> "panic: Too few data shards", rs |-> NoCodec]
    ELSE IF parity_shards = 0 THEN [out |-> "panic: Too few pairty shards", rs |-> NoCodec]
    ELSE IF 256 <= data_shards + parity_shards
    THEN [out |-> "panic: Too many shards, max is 256", rs |-> NoCodec]
    ELSE [out |-> "Ok",
          rs  |-> [built |-> TRUE,
                   data_shard_count   |-> data_shards,
                   parity_shard_count |-> parity_shards,
                   total_shard_count  |-> data_shards + parity_shards,
                   matrix |-> build_matrix(data_shards, data_shards + parity_shards).m]]

\* ReedSolomon::new: the outcome and the codec built
new(data_shards, parity_shards) ==
    IF data_shards = 0 THEN [out |-> "panic: Too few data shards", rs |-> NoCodec]
    ELSE IF parity_shards = 0 THEN [out |-> "panic: Too few pairty shards", rs |-> NoCodec]
    ELSE IF 256 < data_shards + parity_shards
    THEN [out |-> "panic: Too many shards, max is 256", rs |-> NoCodec]
    ELSE LET total_shards == data_shards + parity_shards
             matrix       == build_matrix(data_shards, total_shards)
         IN  IF ~matrix.ok THEN [out |-> "panic: unwrap on SingularMatrix", rs |-> NoCodec]
             ELSE [out |-> "Ok",
                   rs  |-> [built |-> TRUE,
                            data_shard_count   |-> data_shards,
                            parity_shard_count |-> parity_shards,
                            total_shard_count  |-> total_shards,
                            matrix             |-> matrix.m]]

\* (mutant) the total is passed for the number of parity shards
clone_passes_total(r) == new(r.data_shard_count, r.total_shard_count)

\* impl Clone for ReedSolomon: the codec is built again from its two counts
clone(r) == new(r.data_shard_count, r.parity_shard_count)

\* derived PartialEq: field by field
eq(r1, r2) ==
    /\ r1.data_shard_count = r2.data_shard_count
    /\ r1.parity_shard_count = r2.parity_shard_count
    /\ r1.total_shard_count = r2.total_shard_count
    /\ r1.matrix = r2.matrix

\* ------------------------------------------------------- shards and buffers
\* heap: buffer id -> [data, rc]: the Rc<RefCell<Box<[u8]>>> allocations and
\* their strong counts.  A shard vector holds buffer ids, NoShard for None.
make_blank_shard(size) == [b \in 0..size - 1 |-> 0]

\* the k smallest unused buffer ids, as a vector
RECURSIVE FreshIds(_, _, _)
FreshIds(used, k, from) ==
    IF k = 0 THEN <<>>
    ELSE IF from \in used THEN FreshIds(used, k, from + 1)
    ELSE <<from>> \o FreshIds(used, k - 1, from + 1)

AllocIds(h, k) == LET s == FreshIds(DOMAIN h, k, 1) IN [i \in 0..k - 1 |-> s[i + 1]]

\* make_blank_shards: count fresh buffers of size zero bytes, each owned once
make_blank_shards(h, size, count) ==
    LET ids == AllocIds(h, count)
    IN  [ids  |-> ids,
         heap |-> [id \in DOMAIN h \cup {ids[i] : i \in DOMAIN ids} |->
                      IF id \in DOMAIN h THEN h[id]
                      ELSE [data |-> make_blank_shard(size), rc |-> 1]]]

\* Rc::clone of a handle
RcClone(h, id) == [h EXCEPT ![id].rc = @ + 1]

\* drop of a handle: the buffer is freed with its last owner
RcDrop(h, id) ==
    IF h[id].rc = 1 THEN [x \in DOMAIN h \ {id} |-> h[x]]
    ELSE [h EXCEPT ![id].rc = @ - 1]

\* (mutant) the handles are never dropped
DropAll_leaks(h, ids, i) == h

RECURSIVE DropAll(_, _, _)
DropAll(h, ids, i) ==
    IF i = VLen(ids) THEN h ELSE DropAll(RcDrop(h, ids[i]), ids, i + 1)

ShardLen(h, id) == VLen(h[id].data)

Present(shards) == {i \in DOMAIN shards : shards[i] # NoShard}

\* the bytes of every slot (an absent slot reads as empty)
Contents(shards, h) ==
    [i \in DOMAIN shards |-> IF shards[i] = NoShard THEN <<>> ELSE h[shards[i]].data]

\* Vec::clone of a shard vector: one more owner of every buffer
RECURSIVE clone_shards(_, _, _)
clone_shards(h, shards, i) ==
    IF i = VLen(shards) THEN [v |-> shards, heap |-> h]
    ELSE IF shards[i] = NoShard THEN clone_shards(h, shards, i + 1)
    ELSE clone_shards(RcClone(h, shards[i]), shards, i + 1)

\* a fresh buffer, owned once, with the bytes of each shard
deep_clone_shards(h, shards) ==
    LET ids == AllocIds(h, VLen(shards))
    IN  [v    |-> ids,
         heap |-> [id \in DOMAIN h \cup {ids[i] : i \in DOMAIN ids} |->
                      IF id \in DOMAIN h THEN h[id]
                      ELSE LET i == CHOOSE i \in DOMAIN ids : ids[i] = id
                           IN  [data |-> h[shards[i]].data, rc |-> 1]]]

\* (mutant) the Rc is cloned, not the buffer
deep_clone_option_shards_shares(h, shards) == clone_shards(h, shards, 0)

\* a fresh buffer, owned once, with the bytes of each present shard; None
\* for None
deep_clone_option_shards(h, shards) ==
    LET ids == AllocIds(h, Cardinality(Present(shards)))
        rank(i) == Cardinality({j \in Present(shards) : j < i})
    IN  [v    |-> [i \in DOMAIN shards |->
                      IF shards[i] = NoShard THEN NoShard ELSE ids[rank(i)]],
         heap |-> [id \in DOMAIN h \cup {ids[k] : k \in DOMAIN ids} |->
                      IF id \in DOMAIN h THEN h[id]
                      ELSE LET k == CHOOSE k \in DOMAIN ids : ids[k] = id
                               i == CHOOSE i \in Present(shards) : rank(i) = k
                           IN  [data |-> h[shards[i]].data, rc |-> 1]]]

\* ------------------------------------------------------------------ helper
\* (mutant) the offset asked for is ignored
calc_offset_ignores(offset) == 0

calc_offset(offset) == IF offset = None THEN 0 ELSE offset

\* shards[0] of an empty vector is out of bounds
calc_byte_count(h, shards, byte_count) ==
    IF byte_count = None /\ VLen(shards) = 0
    THEN [panic |-> "panic: index out of bounds", v |-> 0]
    ELSE LET result == IF byte_count = None THEN ShardLen(h, shards[0]) ELSE byte_count
         IN  IF result = 0 THEN [panic |-> "panic: Byte count is zero", v |-> 0]
             ELSE [panic |-> "", v |-> result]

\* (mutant) a byte count of zero is let through
calc_byte_count_option_shards_allows_zero(h, shards, byte_count) ==
    IF byte_count = None /\ Present(shards) = {}
    THEN [panic |-> "panic: No shards are present", v |-> 0]
    ELSE LET first  == CHOOSE i \in Present(shards) : \A j \in Present(shards) : i <= j
         IN  [panic |-> "",
              v     |-> IF byte_count = None THEN ShardLen(h, shards[first]) ELSE byte_count]

calc_byte_count_option_shards(h, shards, byte_count) ==
    IF byte_count = None /\ Present(shards) = {}
    THEN [panic |-> "panic: No shards are present", v |-> 0]
    ELSE LET first  == CHOOSE i \in Present(shards) : \A j \in Present(shards) : i <= j
             result == IF byte_count = None THEN ShardLen(h, shards[first]) ELSE byte_count
         IN  IF result = 0 THEN [panic |-> "panic: Byte count is zero", v |-> 0]
             ELSE [panic |-> "", v |-> result]

\* ------------------------------------------------------------- size checks
\* (mutant) more shards than the codec has are let through
check_buffer_and_sizes_accepts_more(r, h, shards, offset, byte_count) ==
    IF VLen(shards) < r.total_shard_count THEN "panic: Incorrect number of shards"
    ELSE LET shard_length == ShardLen(h, shards[0])
         IN  IF \E i \in DOMAIN shards : ShardLen(h, shards[i]) # shard_length
             THEN "panic: Shards are of different sizes"
             ELSE IF shard_length < offset + byte_count THEN "panic: Shards too small"
             ELSE ""

check_buffer_and_sizes(r, h, shards, offset, byte_count) ==
    IF VLen(shards) # r.total_shard_count THEN "panic: Incorrect number of shards"
    ELSE LET shard_length == ShardLen(h, shards[0])
         IN  IF \E i \in DOMAIN shards : ShardLen(h, shards[i]) # shard_length
             THEN "panic: Shards are of different sizes"
             ELSE IF shard_length < offset + byte_count THEN "panic: Shards too small"
             ELSE ""

\* (mutant) a present shard longer than the first present one is let through
check_buffer_and_sizes_option_shards_accepts_longer(r, h, shards, offset, byte_count) ==
    IF VLen(shards) # r.total_shard_count THEN "panic: Incorrect number of shards"
    ELSE IF Present(shards) = {} THEN ""
    ELSE LET first == CHOOSE i \in Present(shards) : \A j \in Present(shards) : i <= j
             x     == ShardLen(h, shards[first])
         IN  IF \E i \in Present(shards) : ShardLen(h, shards[i]) < x
             THEN "panic: Shards are of different sizes"
             ELSE IF x < offset + byte_count THEN "panic: Shards too small"
             ELSE ""

check_buffer_and_sizes_option_shards(r, h, shards, offset, byte_count) ==
    IF VLen(shards) # r.total_shard_count THEN "panic: Incorrect number of shards"
    ELSE IF Present(shards) = {} THEN ""
    ELSE LET first == CHOOSE i \in Present(shards) : \A j \in Present(shards) : i <= j
             x     == ShardLen(h, shards[first])
         IN  IF \E i \in Present(shards) : ShardLen(h, shards[i]) # x
             THEN "panic: Shards are of different sizes"
             ELSE IF x < offset + byte_count THEN "panic: Shards too small"
             ELSE ""

\* -------------------------------------------------------------- coding loop
\* (mutant) the loop starts at byte 0
InRange_from_zero(b, offset, byte_count) == b < offset + byte_count

InRange(b, offset, byte_count) == offset <= b /\ b < offset + byte_count

\* output_shard[i_byte] = mult_table_row[input_shard[i_byte]], output by output
RECURSIVE CodeFirstFrom(_, _, _, _, _, _, _, _, _)
CodeFirstFrom(h, matrix_rows, outputs, output_count, offset, byte_count, i_input, input_shard, i_output) ==
    IF i_output >= output_count THEN h
    ELSE LET mult_table_row == MULT_TABLE[matrix_rows[i_output][i_input]]
             written == [h EXCEPT ![outputs[i_output]].data =
                            [b \in DOMAIN @ |->
                                IF InRange(b, offset, byte_count)
                                THEN mult_table_row[input_shard[b]]
                                ELSE @[b]]]
         IN  CodeFirstFrom(written, matrix_rows, outputs, output_count, offset,
                           byte_count, i_input, input_shard, i_output + 1)

\* output_shard[i_byte] ^= mult_table_row[input_shard[i_byte]], output by output
RECURSIVE CodeOtherFrom(_, _, _, _, _, _, _, _, _)
CodeOtherFrom(h, matrix_rows, outputs, output_count, offset, byte_count, i_input, input_shard, i_output) ==
    IF i_output >= output_count THEN h
    ELSE LET mult_table_row == MULT_TABLE[matrix_rows[i_output][i_input]]
             written == [h EXCEPT ![outputs[i_output]].data =
                            [b \in DOMAIN @ |->
                                IF InRange(b, offset, byte_count)
                                THEN add(@[b], mult_table_row[input_shard[b]])
                                ELSE @[b]]]
         IN  CodeOtherFrom(written, matrix_rows, outputs, output_count, offset,
                           byte_count, i_input, input_shard, i_output + 1)

\* (mutant) the first input accumulates into what the outputs held
code_first_input_shard_accumulates(h, matrix_rows, outputs, output_count, offset, byte_count, i_input, input_shard) ==
    CodeOtherFrom(h, matrix_rows, outputs, output_count, offset, byte_count,
                  i_input, input_shard, 0)

code_first_input_shard(h, matrix_rows, outputs, output_count, offset, byte_count, i_input, input_shard) ==
    CodeFirstFrom(h, matrix_rows, outputs, output_count, offset, byte_count,
                  i_input, input_shard, 0)

\* output_shard[i_byte] += mult_table_row[input_shard[i_byte]] (wrapping)
RECURSIVE CodeOtherAddFrom(_, _, _, _, _, _, _, _, _)
CodeOtherAddFrom(h, matrix_rows, outputs, output_count, offset, byte_count, i_input, input_shard, i_output) ==
    IF i_output >= output_count THEN h
    ELSE LET mult_table_row == MULT_TABLE[matrix_rows[i_output][i_input]]
             written == [h EXCEPT ![outputs[i_output]].data =
                            [b \in DOMAIN @ |->
                                IF InRange(b, offset, byte_count)
                                THEN (@[b] + mult_table_row[input_shard[b]]) % 256
                                ELSE @[b]]]
         IN  CodeOtherAddFrom(written, matrix_rows, outputs, output_count, offset,
                              byte_count, i_input, input_shard, i_output + 1)

\* (mutant) a later input is added with + instead of ^
code_other_input_shard_adds(h, matrix_rows, outputs, output_count, offset, byte_count, i_input, input_shard) ==
    CodeOtherAddFrom(h, matrix_rows, outputs, output_count, offset, byte_count,
                     i_input, input_shard, 0)

\* (mutant) a later input overwrites the outputs
code_other_input_shard_overwrites(h, matrix_rows, outputs, output_count, offset, byte_count, i_input, input_shard) ==
    CodeFirstFrom(h, matrix_rows, outputs, output_count, offset, byte_count,
                  i_input, input_shard, 0)

\* (mutant) a later input is accumulated into the first output only
code_other_input_shard_first_output(h, matrix_rows, outputs, output_count, offset, byte_count, i_input, input_shard) ==
    CodeOtherFrom(h, matrix_rows, outputs, IF output_count > 1 THEN 1 ELSE output_count,
                  offset, byte_count, i_input, input_shard, 0)

code_other_input_shard(h, matrix_rows, outputs, output_count, offset, byte_count, i_input, input_shard) ==
    CodeOtherFrom(h, matrix_rows, outputs, output_count, offset, byte_count,
                  i_input, input_shard, 0)

\* inputs 1..input_count-1 in ascending order, each read as it is borrowed
RECURSIVE CodeOthersFrom(_, _, _, _, _, _, _, _, _)
CodeOthersFrom(h, matrix_rows, inputs, input_count, outputs, output_count, offset, byte_count, i_input) ==
    IF i_input >= input_count THEN h
    ELSE CodeOthersFrom(
             code_other_input_shard(h, matrix_rows, outputs, output_count, offset,
                                    byte_count, i_input, h[inputs[i_input]].data),
             matrix_rows, inputs, input_count, outputs, output_count, offset,
             byte_count, i_input + 1)

code_some_shards(h, matrix_rows, inputs, input_count, outputs, output_count, offset, byte_count) ==
    CodeOthersFrom(
        code_first_input_shard(h, matrix_rows, outputs, output_count, offset,
                               byte_count, 0, h[inputs[0]].data),
        matrix_rows, inputs, input_count, outputs, output_count, offset, byte_count, 1)

\* the same loop over Option<Shard> inputs: an absent input panics
code_some_option_shards(h, matrix_rows, inputs, input_count, outputs, output_count, offset, byte_count) ==
    IF \E i \in 0..input_count - 1 : inputs[i] = NoShard
    THEN [panic |-> "panic: explicit panic", heap |-> h]
    ELSE [panic |-> "",
          heap  |-> code_some_shards(h, matrix_rows, inputs, input_count, outputs,
                                     output_count, offset, byte_count)]

\* ----------------------------------------------------------- encode_parity
\* (mutant) the first K rows of the matrix are applied, not the parity rows
encode_parity_top_rows(r, h, shards, offset, byte_count) ==
    LET o  == calc_offset(offset)
        bc == calc_byte_count(h, shards, byte_count)
    IN  IF bc.panic # "" THEN [out |-> bc.panic, heap |-> h]
        ELSE IF check_buffer_and_sizes(r, h, shards, o, bc.v) # ""
        THEN [out |-> check_buffer_and_sizes(r, h, shards, o, bc.v), heap |-> h]
        ELSE LET inputs  == [i \in 0..r.data_shard_count - 1 |-> shards[i]]
                 outputs == [i \in 0..r.parity_shard_count - 1 |->
                                shards[r.data_shard_count + i]]
             IN  [out  |-> "Ok",
                  heap |-> code_some_shards(h, r.matrix,
                                            inputs, r.data_shard_count,
                                            outputs, r.parity_shard_count,
                                            o, bc.v)]

\* [out, heap]: the parity rows applied to the N data shards, written into
\* the K parity shards.
encode_parity(r, h, shards, offset, byte_count) ==
    LET o  == calc_offset(offset)
        bc == calc_byte_count(h, shards, byte_count)
    IN  IF bc.panic # "" THEN [out |-> bc.panic, heap |-> h]
        ELSE IF check_buffer_and_sizes(r, h, shards, o, bc.v) # ""
        THEN [out |-> check_buffer_and_sizes(r, h, shards, o, bc.v), heap |-> h]
        ELSE LET inputs  == [i \in 0..r.data_shard_count - 1 |-> shards[i]]
                 outputs == [i \in 0..r.parity_shard_count - 1 |->
                                shards[r.data_shard_count + i]]
             IN  [out  |-> "Ok",
                  heap |-> code_some_shards(h, parity_rows(r),
                                            inputs, r.data_shard_count,
                                            outputs, r.parity_shard_count,
                                            o, bc.v)]

\* ------------------------------------------------------- is_parity_correct
RECURSIVE CheckValue(_, _, _, _, _, _)
CheckValue(h, matrix_row, inputs, input_count, i_byte, i_input) ==
    IF i_input >= input_count THEN 0
    ELSE add(MULT_TABLE[matrix_row[i_input]][h[inputs[i_input]].data[i_byte]],
             CheckValue(h, matrix_row, inputs, input_count, i_byte, i_input + 1))

\* (mutant) only the first shard to check is compared
check_some_shards_first_only(h, matrix_rows, inputs, input_count, to_check, check_count, offset, byte_count) ==
    \A i_byte \in offset..offset + byte_count - 1 :
        h[to_check[0]].data[i_byte]
            = CheckValue(h, matrix_rows[0], inputs, input_count, i_byte, 0)

\* (mutant) the last byte of the range is not compared
check_some_shards_skips_last_byte(h, matrix_rows, inputs, input_count, to_check, check_count, offset, byte_count) ==
    \A i_byte \in offset..offset + byte_count - 2 :
        \A i_output \in 0..check_count - 1 :
            h[to_check[i_output]].data[i_byte]
                = CheckValue(h, matrix_rows[i_output], inputs, input_count, i_byte, 0)

\* false at the first byte of a checked shard that differs from the value
\* recomputed from the inputs
check_some_shards(h, matrix_rows, inputs, input_count, to_check, check_count, offset, byte_count) ==
    \A i_byte \in offset..offset + byte_count - 1 :
        \A i_output \in 0..check_count - 1 :
            h[to_check[i_output]].data[i_byte]
                = CheckValue(h, matrix_rows[i_output], inputs, input_count, i_byte, 0)

is_parity_correct(r, h, shards, offset, byte_count) ==
    LET o  == calc_offset(offset)
        bc == calc_byte_count(h, shards, byte_count)
    IN  IF bc.panic # "" THEN bc.panic
        ELSE IF check_buffer_and_sizes(r, h, shards, o, bc.v) # ""
        THEN check_buffer_and_sizes(r, h, shards, o, bc.v)
        ELSE LET data_shards == [i \in 0..r.data_shard_count - 1 |-> shards[i]]
                 to_check    == [i \in 0..r.parity_shard_count - 1 |->
                                    shards[r.data_shard_count + i]]
             IN  IF check_some_shards(h, parity_rows(r),
                                      data_shards, r.data_shard_count,
                                      to_check, r.parity_shard_count, o, bc.v)
                 THEN "true" ELSE "false"

\* ---------------------------------------------------------- decode_missing
\* (mutant) the absent slots are counted
number_present_counts_absent(shards) == Cardinality(DOMAIN shards \ Present(shards))

number_present(shards) == Cardinality(Present(shards))

\* the k-th (from 0) index of set S in ascending order
Nth(S, k) == CHOOSE i \in S : Cardinality({j \in S : j < i}) = k

\* The rows of the generator matrix of the first N present shards, and
\* those shards: the square matrix that made them from the data.
\* (mutant) the N highest-indexed present shards are taken
decode_rows_last(r, shards) ==
    [k \in 0..r.data_shard_count - 1 |->
        Nth(Present(shards), Cardinality(Present(shards)) - r.data_shard_count + k)]

decode_rows(r, shards) ==
    [k \in 0..r.data_shard_count - 1 |-> Nth(Present(shards), k)]

\* (mutant) every selected row is written to row 0 of the square matrix
decode_sub_matrix_sets_row_0(r, shards) ==
    [k \in 0..r.data_shard_count - 1 |->
        [c \in 0..r.data_shard_count - 1 |->
            IF k = 0 THEN r.matrix[decode_rows(r, shards)[r.data_shard_count - 1]][c]
            ELSE 0]]

\* (mutant) the first N rows are taken, whichever shards are present
decode_sub_matrix_first_rows(r, shards) ==
    [k \in 0..r.data_shard_count - 1 |->
        [c \in 0..r.data_shard_count - 1 |-> r.matrix[k][c]]]

decode_sub_matrix(r, shards) ==
    [k \in 0..r.data_shard_count - 1 |->
        [c \in 0..r.data_shard_count - 1 |-> r.matrix[decode_rows(r, shards)[k]][c]]]

decode_sub_shards(r, shards) ==
    [k \in 0..r.data_shard_count - 1 |-> shards[decode_rows(r, shards)[k]]]

\* Links the first output_count fresh outputs to the absent slots in `slots`
\* (ascending), each link one more owner of the buffer.
RECURSIVE LinkHeap(_, _, _, _)
LinkHeap(h, outputs, output_count, k) ==
    IF k >= output_count THEN h
    ELSE LinkHeap(RcClone(h, outputs[k]), outputs, output_count, k + 1)

\* (mutant) only the first missing slot is linked
LinkSlots_first_only(shards, missing, outputs, output_count) ==
    [i \in DOMAIN shards |->
        IF i \in missing /\ Cardinality({j \in missing : j < i}) < 1
        THEN outputs[0]
        ELSE shards[i]]

LinkSlots(shards, missing, outputs, output_count) ==
    [i \in DOMAIN shards |->
        IF i \in missing /\ Cardinality({j \in missing : j < i}) < output_count
        THEN outputs[Cardinality({j \in missing : j < i})]
        ELSE shards[i]]

\* (mutant) outputs and matrix_rows hold one slot less than K
decode_data_pass_fewer_outputs(r, h, shards, data_decode_matrix, shard_length, offset, byte_count) ==
    LET blank   == make_blank_shards(h, shard_length, r.parity_shard_count - 1)
        outputs == blank.ids
        missing == {i \in 0..r.data_shard_count - 1 : shards[i] = NoShard}
        count   == IF Cardinality(missing) > r.parity_shard_count - 1
                   THEN r.parity_shard_count - 1 ELSE Cardinality(missing)
        linked  == LinkSlots(shards, missing, outputs, count)
        h1      == LinkHeap(blank.heap, outputs, count, 0)
        matrix_rows == [k \in 0..count - 1 |-> data_decode_matrix[Nth(missing, k)]]
    IN  IF Cardinality(missing) > r.parity_shard_count - 1
        THEN [out |-> "panic: index out of bounds", shards |-> linked,
              heap |-> DropAll(h1, outputs, 0)]
        ELSE [out |-> "", shards |-> linked,
              heap |-> DropAll(code_some_shards(h1, matrix_rows,
                                                decode_sub_shards(r, shards),
                                                r.data_shard_count,
                                                outputs, count, offset, byte_count),
                               outputs, 0)]

\* Re-creates the absent data shards from sub_shards with the rows of the
\* decode matrix.  [out, heap, shards]; out = "" when the pass completes.
decode_data_pass(r, h, shards, data_decode_matrix, shard_length, offset, byte_count) ==
    LET blank   == make_blank_shards(h, shard_length, r.parity_shard_count)
        outputs == blank.ids
        missing == {i \in 0..r.data_shard_count - 1 : shards[i] = NoShard}
        count   == IF Cardinality(missing) > r.parity_shard_count
                   THEN r.parity_shard_count ELSE Cardinality(missing)
        linked  == LinkSlots(shards, missing, outputs, count)
        h1      == LinkHeap(blank.heap, outputs, count, 0)
        matrix_rows == [k \in 0..count - 1 |-> data_decode_matrix[Nth(missing, k)]]
    IN  IF Cardinality(missing) > r.parity_shard_count
        THEN [out |-> "panic: index out of bounds", shards |-> linked,
              heap |-> DropAll(h1, outputs, 0)]
        ELSE [out |-> "", shards |-> linked,
              heap |-> DropAll(code_some_shards(h1, matrix_rows,
                                                decode_sub_shards(r, shards),
                                                r.data_shard_count,
                                                outputs, count, offset, byte_count),
                               outputs, 0)]

\* Re-creates the absent parity shards from the N data shards with the
\* parity rows.
decode_parity_pass(r, h, shards, shard_length, offset, byte_count) ==
    LET blank   == make_blank_shards(h, shard_length, r.parity_shard_count)
        outputs == blank.ids
        missing == {i \in r.data_shard_count..r.total_shard_count - 1 :
                        shards[i] = NoShard}
        count   == Cardinality(missing)
        linked  == LinkSlots(shards, missing, outputs, count)
        h1      == LinkHeap(blank.heap, outputs, count, 0)
        matrix_rows == [k \in 0..count - 1 |->
                           parity_rows(r)[Nth(missing, k) - r.data_shard_count]]
        coded   == code_some_option_shards(h1, matrix_rows, linked,
                                           r.data_shard_count, outputs, count,
                                           offset, byte_count)
    IN  [out |-> coded.panic, shards |-> linked,
         heap |-> DropAll(coded.heap, outputs, 0)]

\* (mutant) the first absent slot is linked to a blank shard before the
\* number of present shards is checked
decode_missing_links_first(r, h, shards, offset, byte_count) ==
    LET o  == calc_offset(offset)
        bc == calc_byte_count_option_shards(h, shards, byte_count)
        same(outcome) == [out |-> outcome, heap |-> h, shards |-> shards]
    IN  IF bc.panic # "" THEN same(bc.panic)
        ELSE IF check_buffer_and_sizes_option_shards(r, h, shards, o, bc.v) # ""
        THEN same(check_buffer_and_sizes_option_shards(r, h, shards, o, bc.v))
        ELSE IF calc_byte_count_option_shards(h, shards, None).panic # ""
        THEN same(calc_byte_count_option_shards(h, shards, None).panic)
        ELSE IF number_present(shards) = r.total_shard_count THEN same("Ok")
        ELSE IF number_present(shards) < r.data_shard_count
        THEN LET blank == make_blank_shards(h, calc_byte_count_option_shards(h, shards, None).v, 1)
                 slot  == CHOOSE i \in DOMAIN shards \ Present(shards) :
                              \A j \in DOMAIN shards \ Present(shards) : i <= j
             IN  [out |-> "Err(NotEnoughShards)", heap |-> blank.heap,
                  shards |-> [shards EXCEPT ![slot] = blank.ids[0]]]
        ELSE LET shard_length == calc_byte_count_option_shards(h, shards, None).v
                 inv == invert(decode_sub_matrix(r, shards))
             IN  IF ~inv.ok THEN same("panic: unwrap on SingularMatrix")
                 ELSE LET d == decode_data_pass(r, h, shards, inv.m, shard_length,
                                                o, bc.v)
                      IN  IF d.out # "" THEN d
                          ELSE LET p == decode_parity_pass(r, d.heap, d.shards,
                                                           shard_length, o, bc.v)
                               IN  IF p.out # "" THEN p
                                   ELSE [out |-> "Ok", heap |-> p.heap,
                                         shards |-> p.shards]

\* [out, heap, shards]
decode_missing(r, h, shards, offset, byte_count) ==
    LET o  == calc_offset(offset)
        bc == calc_byte_count_option_shards(h, shards, byte_count)
        same(outcome) == [out |-> outcome, heap |-> h, shards |-> shards]
    IN  IF bc.panic # "" THEN same(bc.panic)
        ELSE IF check_buffer_and_sizes_option_shards(r, h, shards, o, bc.v) # ""
        THEN same(check_buffer_and_sizes_option_shards(r, h, shards, o, bc.v))
        ELSE IF calc_byte_count_option_shards(h, shards, None).panic # ""
        THEN same(calc_byte_count_option_shards(h, shards, None).panic)
        ELSE IF number_present(shards) = r.total_shard_count THEN same("Ok")
        ELSE IF number_present(shards) < r.data_shard_count
        THEN same("Err(NotEnoughShards)")
        ELSE LET shard_length == calc_byte_count_option_shards(h, shards, None).v
                 inv == invert(decode_sub_matrix(r, shards))
             IN  IF ~inv.ok THEN same("panic: unwrap on SingularMatrix")
                 ELSE LET d == decode_data_pass(r, h, shards, inv.m, shard_length,
                                                o, bc.v)
                      IN  IF d.out # "" THEN d
                          ELSE LET p == decode_parity_pass(r, d.heap, d.shards,
                                                           shard_length, o, bc.v)
                               IN  IF p.out # "" THEN p
                                   ELSE [out |-> "Ok", heap |-> p.heap,
                                         shards |-> p.shards]

\* =================================================================== state
\* rs      the codec (NoCodec before construction)
\* heap    the live shard buffers and their owner counts
\* shards  the caller's shard vector (empty before it is made)
\* call    the last step: its name and, for a call of the library, its two
\*         arguments
\* out     what the last library call returned, or the panic it ended in
\* pre     the shard vector and the buffers as they were before the last
\*         library call
\* enc     the last successful encode_parity: its byte range and the
\*         contents of the shards right after it
\* stage   where the caller is: "new", "made" (complete shard vector),
\*         "corrupted" (a byte of it overwritten), "erased" (shards lost),
\*         "decoded" (shards re-created by decode_missing)
\* other   a second shard vector the caller holds, in the same heap, and how
\*         it was made: "none", "clone" (Vec::clone), "deep" (a deep clone),
\*         "made" (buffers of its own)
VARIABLES rs, heap, shards, call, out, pre, enc, stage, other

vars == <<rs, heap, shards, call, out, pre, enc, stage, other>>

NoOther == [kind |-> "none", v |-> <<>>]

Snapshot == [shards |-> shards, heap |-> heap]

NoEnc == [valid |-> FALSE, offset |-> 0, byte_count |-> 0, master |-> <<>>]

Init ==
    /\ rs = NoCodec
    /\ heap = <<>>
    /\ shards = <<>>
    /\ call = [op |-> "init", a |-> None, b |-> None]
    /\ out = ""
    /\ pre = [shards |-> <<>>, heap |-> <<>>]
    /\ enc = NoEnc
    /\ stage = "new"
    /\ other = NoOther

\* ---------------------------------------------------- calls of the library
New(data_shards, parity_shards) ==
    /\ ~rs.built
    /\ rs' = new(data_shards, parity_shards).rs
    /\ out' = new(data_shards, parity_shards).out
    /\ call' = [op |-> "new", a |-> data_shards, b |-> parity_shards]
    /\ pre' = Snapshot
    /\ UNCHANGED <<heap, shards, enc, stage, other>>

\* the caller holds a shard vector with no absent slot (a Vec<Shard>)
AllPresent == stage # "new" /\ \A i \in DOMAIN shards : shards[i] # NoShard

EncodeParity(offset, byte_count) ==
    /\ rs.built
    /\ AllPresent
    /\ stage = "made"
    /\ ~enc.valid
    /\ LET e == encode_parity(rs, heap, shards, offset, byte_count)
       IN  /\ heap' = e.heap
           /\ out' = e.out
           /\ enc' = IF e.out = "Ok"
                     THEN [valid      |-> TRUE,
                           offset     |-> calc_offset(offset),
                           byte_count |-> calc_byte_count(heap, shards, byte_count).v,
                           master     |-> Contents(shards, e.heap)]
                     ELSE enc
    /\ call' = [op |-> "encode", a |-> offset, b |-> byte_count]
    /\ pre' = Snapshot
    /\ UNCHANGED <<rs, shards, stage, other>>

IsParityCorrect(offset, byte_count) ==
    /\ rs.built
    /\ AllPresent
    /\ out' = is_parity_correct(rs, heap, shards, offset, byte_count)
    /\ call' = [op |-> "verify", a |-> offset, b |-> byte_count]
    /\ pre' = Snapshot
    /\ UNCHANGED <<rs, heap, shards, enc, stage, other>>

DecodeMissing(offset, byte_count) ==
    /\ rs.built
    /\ stage # "new"
    /\ LET d == decode_missing(rs, heap, shards, offset, byte_count)
       IN  /\ heap' = d.heap
           /\ shards' = d.shards
           /\ out' = d.out
           /\ stage' = IF d.shards # shards THEN "decoded" ELSE stage
    /\ call' = [op |-> "decode", a |-> offset, b |-> byte_count]
    /\ pre' = Snapshot
    /\ UNCHANGED <<rs, enc, other>>

\* ------------------------------------------------------ steps of the caller
\* The caller builds a vector of fresh shards with the given contents
\* (shards!, make_blank_shards and writes): one buffer per slot, owned once.
MakeShardsOf(contents) ==
    /\ rs.built
    /\ stage = "new"
    /\ shards' = [i \in DOMAIN contents |-> i + 1]
    /\ heap' = [id \in 1..VLen(contents) |-> [data |-> contents[id - 1], rc |-> 1]]
    /\ call' = [op |-> "make", a |-> None, b |-> None]
    /\ out' = ""
    /\ pre' = [shards |-> shards', heap |-> heap']
    /\ enc' = NoEnc
    /\ stage' = "made"
    /\ UNCHANGED <<rs, other>>

\* The caller loses a shard: shards[i] = None
Erase(i) ==
    /\ stage \in {"made", "erased"}
    /\ i \in Present(shards)
    /\ shards' = [shards EXCEPT ![i] = NoShard]
    /\ heap' = RcDrop(heap, shards[i])
    /\ call' = [op |-> "erase", a |-> None, b |-> None]
    /\ out' = ""
    /\ pre' = [shards |-> shards', heap |-> heap']
    /\ stage' = "erased"
    /\ UNCHANGED <<rs, enc, other>>

\* The caller overwrites one byte of an encoded, complete shard set
Corrupt(i, p, v) ==
    /\ stage = "made"
    /\ enc.valid
    /\ i \in DOMAIN shards
    /\ p \in DOMAIN heap[shards[i]].data
    /\ v # heap[shards[i]].data[p]
    /\ heap' = [heap EXCEPT ![shards[i]].data[p] = v]
    /\ call' = [op |-> "corrupt", a |-> None, b |-> None]
    /\ out' = ""
    /\ pre' = [shards |-> shards, heap |-> heap']
    /\ stage' = "corrupted"
    /\ UNCHANGED <<rs, shards, enc, other>>

\* ------------------------------------------------------- the inputs drawn
\* <<offset, byte_count>>: the whole shard, a range inside it, a range
\* beyond its end, no bytes
Ranges == {<<None, None>>, <<1, 1>>, <<1, None>>, <<None, 0>>}

Codecs == {c \in (1..MaxTotal) \X (1..MaxTotal) : c[1] + c[2] <= MaxTotal}

\* n shards of len bytes: the data shards hold any bytes, each further
\* shard is filled with one byte
ShardContents(n, len, d, f) ==
    [i \in 0..n - 1 |->
        IF i \in DOMAIN d THEN d[i] ELSE [b \in 0..len - 1 |-> f[i]]]

DataSlots(n) == 0..(IF n < rs.data_shard_count THEN n ELSE rs.data_shard_count) - 1

DoNew == \E c \in Codecs : New(c[1], c[2])

DoMakeShards ==
    \E n \in 1..MaxTotal, len \in 0..MaxLen :
        \E d \in [DataSlots(n) -> [0..len - 1 -> ByteVals]] :
            \E f \in [(0..n - 1) \ DataSlots(n) -> ParityFill] :
                MakeShardsOf(ShardContents(n, len, d, f))

DoEncodeParity == \E a \in Ranges : EncodeParity(a[1], a[2])

DoIsParityCorrect == \E a \in Ranges : IsParityCorrect(a[1], a[2])

DoDecodeMissing == \E a \in Ranges : DecodeMissing(a[1], a[2])

DoErase == \E i \in DOMAIN shards : Erase(i)

DoCorrupt ==
    /\ AllPresent
    /\ \E i \in DOMAIN shards :
          \E p \in DOMAIN heap[shards[i]].data :
              \E v \in {(heap[shards[i]].data[p] + 1) % 256, 255 - heap[shards[i]].data[p]} :
                  Corrupt(i, p, v)

Next ==
    \/ DoNew
    \/ DoMakeShards
    \/ DoEncodeParity
    \/ DoIsParityCorrect
    \/ DoDecodeMissing
    \/ DoErase
    \/ DoCorrupt

Spec == Init /\ [][Next]_vars

\* ------------------------------------------- construction of codecs alone
\* Generator matrices of up to MaxGen rows are built.
MaxGen == 6

\* new(0, 1), new(1, 0), new(256, 1) and new(128, 129) of the tests and of
\* the boundary cases, and the largest codecs, of 256 shards
NewArgs ==
    {c \in (0..MaxGen) \X (0..MaxGen) : c[1] + c[2] <= MaxGen}
        \cup {<<1, 255>>, <<2, 254>>, <<1, 256>>, <<256, 1>>, <<128, 129>>,
              <<0, 257>>, <<257, 0>>}

\* a shard vector in which exactly the slots of S are present
PresentAt(S) == [i \in 0..rs.total_shard_count - 1 |-> IF i \in S THEN 1 ELSE NoShard]

\* decode_missing's decode matrix for the present shards S: the rows of S
\* of the generator matrix, inverted and unwrapped
DecodeMatrix(S) ==
    /\ rs.built
    /\ call' = [op |-> "invert", a |-> S, b |-> None]
    /\ out' = IF invert(decode_sub_matrix(rs, PresentAt(S))).ok THEN "Ok"
              ELSE "panic: unwrap on SingularMatrix"
    /\ UNCHANGED <<rs, heap, shards, pre, enc, stage, other>>

DoNewAny == \E c \in NewArgs : New(c[1], c[2])

\* the sets of N rows: all of them for matrices of up to MaxGen rows, and
\* for the codecs of one data shard
RowSets ==
    IF rs.data_shard_count = 1 THEN {{i} : i \in 0..rs.total_shard_count - 1}
    ELSE IF rs.total_shard_count <= MaxGen
    THEN {S \in SUBSET (0..rs.total_shard_count - 1) : Cardinality(S) = rs.data_shard_count}
    ELSE {}

DoDecodeMatrix == \E S \in RowSets : DecodeMatrix(S)

\* r2 = r1.clone(); r1 == r2
CloneCodec ==
    /\ rs.built
    /\ call' = [op |-> "clone", a |-> clone(rs).rs, b |-> None]
    /\ out' = IF clone(rs).out # "Ok" THEN clone(rs).out
              ELSE IF eq(rs, clone(rs).rs) THEN "true" ELSE "false"
    /\ UNCHANGED <<rs, heap, shards, pre, enc, stage, other>>

\* r2 = ReedSolomon::new(data_shards, parity_shards); r1 == r2
EqCodec(data_shards, parity_shards) ==
    /\ rs.built
    /\ new(data_shards, parity_shards).out = "Ok"
    /\ call' = [op |-> "eq", a |-> new(data_shards, parity_shards).rs, b |-> None]
    /\ out' = IF eq(rs, new(data_shards, parity_shards).rs) THEN "true" ELSE "false"
    /\ UNCHANGED <<rs, heap, shards, pre, enc, stage, other>>

DoEqCodec == \E c \in NewArgs : EqCodec(c[1], c[2])

NextNew ==
    \/ DoNewAny
    \/ DoDecodeMatrix
    \/ CloneCodec
    \/ DoEqCodec

SpecNew == Init /\ [][NextNew]_vars

\* ------------------------------------------------ test_one_encode's shards
Vec(s) == [i \in 0..Len(s) - 1 |-> s[i + 1]]

KnownData == Vec(<<Vec(<<0, 1>>), Vec(<<4, 5>>), Vec(<<2, 3>>), Vec(<<6, 7>>), Vec(<<8, 9>>)>>)

KnownParity == Vec(<<Vec(<<12, 13>>), Vec(<<10, 11>>), Vec(<<14, 15>>), Vec(<<90, 91>>), Vec(<<94, 95>>)>>)

KnownNew == New(5, 5)

KnownMake ==
    \E f \in ParityFill :
        MakeShardsOf([i \in 0..9 |-> IF i < 5 THEN KnownData[i] ELSE Vec(<<f, f>>)])

KnownEncode == EncodeParity(None, None)

KnownVerify == IsParityCorrect(None, None)

KnownDecode == DecodeMissing(None, None)

NextKnown ==
    \/ KnownNew
    \/ KnownMake
    \/ KnownEncode
    \/ KnownVerify
    \/ KnownDecode
    \/ DoCorrupt

SpecKnown == Init /\ [][NextKnown]_vars

\* ------------------------------------------ two data sets of the same shape
\* The caller builds two shard vectors of the same shape, of the data a and
\* of the data b, each buffer owned once.
MakeTwo(a, b) ==
    /\ rs.built
    /\ stage = "new"
    /\ shards' = [i \in DOMAIN a |-> i + 1]
    /\ other' = [kind |-> "made", v |-> [i \in DOMAIN b |-> VLen(a) + i + 1]]
    /\ heap' = [id \in 1..VLen(a) + VLen(b) |->
                   [data |-> IF id <= VLen(a) THEN a[id - 1] ELSE b[id - VLen(a) - 1],
                    rc   |-> 1]]
    /\ call' = [op |-> "make", a |-> None, b |-> None]
    /\ out' = ""
    /\ pre' = [shards |-> shards', heap |-> heap']
    /\ enc' = NoEnc
    /\ stage' = "made"
    /\ UNCHANGED rs

\* encode_parity over the second vector, after the first was encoded
EncodeOther ==
    /\ rs.built
    /\ other.kind = "made"
    /\ stage = "made"
    /\ enc.valid
    /\ LET e == encode_parity(rs, heap, other.v, None, None)
       IN  /\ heap' = e.heap
           /\ out' = e.out
           /\ stage' = IF e.out = "Ok" THEN "paired" ELSE stage
    /\ call' = [op |-> "encode_other", a |-> None, b |-> None]
    /\ pre' = Snapshot
    /\ UNCHANGED <<rs, shards, enc, other>>

\* the data shards of v with the data shards of w XORed into them, byte by byte
XorData(h, v, w) ==
    [id \in DOMAIN h |->
        IF \E i \in 0..rs.data_shard_count - 1 : v[i] = id
        THEN LET i == CHOOSE i \in 0..rs.data_shard_count - 1 : v[i] = id
             IN  [h[id] EXCEPT !.data = [p \in DOMAIN @ |-> add(@[p], h[w[i]].data[p])]]
        ELSE h[id]]

\* The caller XORs the data of the second vector into the data of the first
\* and encodes the first again.
EncodeXor ==
    /\ rs.built
    /\ stage = "paired"
    /\ LET e == encode_parity(rs, XorData(heap, shards, other.v), shards, None, None)
       IN  /\ heap' = e.heap
           /\ out' = e.out
    /\ call' = [op |-> "encode_xor", a |-> None, b |-> None]
    /\ pre' = Snapshot
    /\ stage' = "summed"
    /\ UNCHANGED <<rs, shards, enc, other>>

DoMakeTwo ==
    \E len \in 1..MaxLen, f \in ParityFill :
        \E a \in [0..rs.data_shard_count - 1 -> [0..len - 1 -> ByteVals]] :
            \E b \in [0..rs.data_shard_count - 1 -> [0..len - 1 -> OtherVals]] :
                MakeTwo(ShardContents(rs.total_shard_count, len, a, [i \in 0..rs.total_shard_count - 1 |-> f]),
                        ShardContents(rs.total_shard_count, len, b, [i \in 0..rs.total_shard_count - 1 |-> 255 - f]))

EncodeFirst == EncodeParity(None, None)

NextLin ==
    \/ DoNew
    \/ DoMakeTwo
    \/ EncodeFirst
    \/ EncodeOther
    \/ EncodeXor

SpecLin == Init /\ [][NextLin]_vars

\* ------------------------------------- shard vectors of any count and sizes
\* Shard vectors of 0..MaxTotal + 1 slots, each shard of its own length
\* 0..MaxLen, every byte 1.
DoMakeRagged ==
    \E n \in 0..MaxTotal + 1 :
        \E lens \in [0..n - 1 -> 0..MaxLen] :
            MakeShardsOf([i \in 0..n - 1 |-> [b \in 0..lens[i] - 1 |-> 1]])

NextCheck ==
    \/ DoNew
    \/ DoMakeRagged
    \/ DoErase
    \/ DoEncodeParity
    \/ DoIsParityCorrect
    \/ DoDecodeMissing

SpecCheck == Init /\ [][NextCheck]_vars

\* ------------------------------------------------- copies of a shard vector
\* The caller copies its shard vector with copy(heap, shards): [v, heap].
CopyShards(kind, op, copy) ==
    /\ rs.built
    /\ stage \in {"made", "erased"}
    /\ other.kind = "none"
    /\ other' = [kind |-> kind, v |-> copy.v]
    /\ heap' = copy.heap
    /\ call' = [op |-> op, a |-> None, b |-> None]
    /\ out' = ""
    /\ pre' = Snapshot
    /\ UNCHANGED <<rs, shards, enc, stage>>

CloneShards == CopyShards("clone", "clone_shards", clone_shards(heap, shards, 0))

DeepCloneShards ==
    /\ AllPresent
    /\ CopyShards("deep", "deep_clone_shards", deep_clone_shards(heap, shards))

DeepCloneOptionShards ==
    CopyShards("deep", "deep_clone_option_shards", deep_clone_option_shards(heap, shards))

\* The caller writes one byte of a shard of the vector v, once it holds a
\* copy: shards[i].borrow_mut()[p] = x
WriteByte(op, v, i, p, x) ==
    /\ stage \in {"made", "erased"}
    /\ other.kind # "none"
    /\ heap' = [heap EXCEPT ![v[i]].data[p] = x]
    /\ call' = [op |-> op, a |-> None, b |-> None]
    /\ out' = ""
    /\ pre' = Snapshot
    /\ stage' = "written"
    /\ UNCHANGED <<rs, shards, enc, other>>

DoWrite ==
    \E i \in Present(shards) : \E p \in DOMAIN heap[shards[i]].data :
        WriteByte("write", shards, i, p, (heap[shards[i]].data[p] + 1) % 256)

DoWriteOther ==
    \E i \in Present(other.v) : \E p \in DOMAIN heap[other.v[i]].data :
        WriteByte("write_other", other.v, i, p, (heap[other.v[i]].data[p] + 1) % 256)

\* complete shard vectors for the codec, the parity shards blank
DoMakeWhole ==
    \E len \in 1..MaxLen :
        \E d \in [0..rs.data_shard_count - 1 -> [0..len - 1 -> OtherVals]] :
            MakeShardsOf(ShardContents(rs.total_shard_count, len, d,
                                       [i \in 0..rs.total_shard_count - 1 |-> 0]))

NextClone ==
    \/ DoNew
    \/ DoMakeWhole
    \/ EncodeFirst
    \/ DoErase
    \/ CloneShards
    \/ DeepCloneShards
    \/ DeepCloneOptionShards
    \/ DoWrite
    \/ DoWriteOther
    \/ DoDecodeMissing

SpecClone == Init /\ [][NextClone]_vars

\* ------------------------------------------------------ every byte range
\* <<offset, byte_count>>: None or any offset 0..MaxLen, None or any byte
\* count 0..MaxLen + 1
AllRanges == ({None} \cup 0..MaxLen) \X ({None} \cup 0..MaxLen + 1)

EncodeRange == \E a \in AllRanges : EncodeParity(a[1], a[2])

VerifyRange == \E a \in AllRanges : IsParityCorrect(a[1], a[2])

DecodeRange == \E a \in AllRanges : DecodeMissing(a[1], a[2])

NextRange ==
    \/ DoNew
    \/ DoMakeWhole
    \/ EncodeRange
    \/ VerifyRange
    \/ DoErase
    \/ DecodeRange

SpecRange == Init /\ [][NextRange]_vars

\* ------------------------------------------- two vectors decoded alike
\* The caller loses slot i of its shard vector and of its deep copy.
ErasePair(i) ==
    /\ other.kind = "deep"
    /\ stage \in {"made", "written", "lost"}
    /\ i \in Present(shards)
    /\ shards' = [shards EXCEPT ![i] = NoShard]
    /\ other' = [other EXCEPT !.v[i] = NoShard]
    /\ heap' = RcDrop(RcDrop(heap, shards[i]), other.v[i])
    /\ call' = [op |-> "erase", a |-> None, b |-> None]
    /\ out' = ""
    /\ pre' = [shards |-> shards', heap |-> heap']
    /\ stage' = "lost"
    /\ UNCHANGED <<rs, enc>>

DoErasePair == \E i \in DOMAIN shards : ErasePair(i)

\* The caller writes one byte of its copy, before any slot is lost.
DoWriteCopy ==
    /\ stage = "made"
    /\ DoWriteOther

\* decode_missing over the shard vector and then over the copy; b of the
\* call is the outcome of the second.
DecodeBoth ==
    /\ rs.built
    /\ other.kind = "deep"
    /\ stage = "lost"
    /\ LET d1 == decode_missing(rs, heap, shards, None, None)
           d2 == decode_missing(rs, d1.heap, other.v, None, None)
       IN  /\ shards' = d1.shards
           /\ other' = [other EXCEPT !.v = d2.shards]
           /\ heap' = d2.heap
           /\ out' = d1.out
           /\ call' = [op |-> "decode_both", a |-> None, b |-> d2.out]
    /\ pre' = [shards |-> shards, heap |-> heap, other |-> other.v]
    /\ stage' = "decoded"
    /\ UNCHANGED <<rs, enc>>

NextPick ==
    \/ DoNew
    \/ DoMakeWhole
    \/ EncodeFirst
    \/ DeepCloneShards
    \/ DoWriteCopy
    \/ DoErasePair
    \/ DecodeBoth

SpecPick == Init /\ [][NextPick]_vars

\* ------------------------------------------------ one input shard at a time
\* The coding loop taken apart: the contribution of one input shard is coded
\* into the K parity shards over the whole shard, input 0 with
\* code_first_input_shard and any other input with code_other_input_shard,
\* in the order the caller chooses.
OrderCodecs == {c \in (1..MaxTotal) \X (1..MaxTotal) : c[1] + c[2] <= MaxTotal + 1}

CodeInput(r, h, v, i_input) ==
    LET outputs    == [i \in 0..r.parity_shard_count - 1 |-> v[r.data_shard_count + i]]
        byte_count == ShardLen(h, v[0])
    IN  IF i_input = 0
        THEN code_first_input_shard(h, parity_rows(r), outputs, r.parity_shard_count,
                                    0, byte_count, i_input, h[v[i_input]].data)
        ELSE code_other_input_shard(h, parity_rows(r), outputs, r.parity_shard_count,
                                    0, byte_count, i_input, h[v[i_input]].data)

RECURSIVE CodeInOrder(_, _, _, _, _)
CodeInOrder(r, h, v, order, k) ==
    IF k > Len(order) THEN h
    ELSE CodeInOrder(r, CodeInput(r, h, v, order[k]), v, order, k + 1)

\* the inputs coded so far, in the order of the calls
Order == IF other.kind = "order" THEN other.v ELSE <<>>

Coded == {Order[k] : k \in 1..Len(Order)}

DoNewOrder == \E c \in OrderCodecs : New(c[1], c[2])

DoMakeOrder ==
    \E len \in 1..MaxLen :
        \E d \in [0..rs.data_shard_count - 1 -> [0..len - 1 -> ByteVals]] :
            \E f \in ParityFill :
                MakeShardsOf(ShardContents(rs.total_shard_count, len, d,
                                           [i \in 0..rs.total_shard_count - 1 |-> f]))

CodeOneInput(i_input) ==
    /\ rs.built
    /\ AllPresent
    /\ stage \in {"made", "partial"}
    /\ i_input \notin Coded
    /\ heap' = CodeInput(rs, heap, shards, i_input)
    /\ other' = [kind |-> "order", v |-> Append(Order, i_input)]
    /\ call' = [op |-> "code_input", a |-> i_input, b |-> None]
    /\ out' = ""
    /\ pre' = IF Order = <<>> THEN Snapshot ELSE pre
    /\ stage' = "partial"
    /\ UNCHANGED <<rs, shards, enc>>

DoCodeOneInput == \E i_input \in 0..rs.data_shard_count - 1 : CodeOneInput(i_input)

NextOrder ==
    \/ DoNewOrder
    \/ DoMakeOrder
    \/ DoCodeOneInput

SpecOrder == Init /\ [][NextOrder]_vars

\* ------------------------------------------------- an altered encoded byte
\* Codecs of up to MaxTotal + 1 shards encode their shards over a range, one
\* byte of one shard is changed, and the parity is verified over a range.
NextAlter ==
    \/ DoNewOrder
    \/ DoMakeWhole
    \/ DoEncodeParity
    \/ DoCorrupt
    \/ DoIsParityCorrect

SpecAlter == Init /\ [][NextAlter]_vars

\* ================================================================== claims
FullRange(a, b) == a = None /\ b = None

\* every shard of the vector is present and len >= 1 bytes long
WellFormed(v, h) ==
    /\ VLen(v) = rs.total_shard_count
    /\ \A i \in DOMAIN v : v[i] # NoShard /\ ShardLen(h, v[i]) = ShardLen(h, v[0])
    /\ ShardLen(h, v[0]) >= 1

\* the encoded range is the whole shard
EncodedWhole ==
    /\ enc.valid
    /\ enc.offset = 0
    /\ enc.byte_count = VLen(enc.master[0])

\* C1: encode_parity over the N+K shards, whatever bytes the data shards and
\* the parity buffers held, succeeds when the shards are equally long and
\* not empty, and is_parity_correct on the shards it left returns true.
C1_EncodeThenVerify ==
    /\ (call.op = "encode" /\ FullRange(call.a, call.b) /\ WellFormed(pre.shards, pre.heap))
          => out = "Ok"
    /\ (call.op = "verify" /\ FullRange(call.a, call.b) /\ EncodedWhole
            /\ Contents(shards, heap) = enc.master)
          => out = "true"

C1_Witness ==
    /\ call.op = "verify" /\ FullRange(call.a, call.b) /\ EncodedWhole
    /\ Contents(shards, heap) = enc.master
    /\ out = "true"
    /\ rs.data_shard_count = 2
    /\ VLen(enc.master[0]) = 2
    /\ enc.master[0][0] # 0 /\ enc.master[1][1] # 0

\* the slots absent before the last call
AbsentBefore == DOMAIN pre.shards \ Present(pre.shards)

\* before the last call every present shard held the bytes it held after
\* the encoding
PresentAsEncoded ==
    /\ VLen(pre.shards) = VLen(enc.master)
    /\ \A i \in Present(pre.shards) : pre.heap[pre.shards[i]].data = enc.master[i]

\* C2: after encode_parity and the loss of at most K shards, data or parity,
\* decode_missing succeeds and every shard holds again, byte for byte, what
\* it held before the loss.
C2_DecodeRestores ==
    (call.op = "decode" /\ FullRange(call.a, call.b) /\ EncodedWhole
        /\ PresentAsEncoded /\ Cardinality(AbsentBefore) <= rs.parity_shard_count)
      => (out = "Ok" /\ Contents(shards, heap) = enc.master)

C2_Witness ==
    /\ call.op = "decode" /\ FullRange(call.a, call.b) /\ EncodedWhole
    /\ PresentAsEncoded
    /\ out = "Ok"
    /\ Cardinality(AbsentBefore) = rs.parity_shard_count
    /\ \E i \in AbsentBefore : i < rs.data_shard_count
    /\ \E i \in AbsentBefore : i >= rs.data_shard_count
    /\ \E i \in AbsentBefore : \E b \in DOMAIN enc.master[i] : enc.master[i][b] # 0

\* the present shards are equally long and not empty
PresentWellFormed(v, h) ==
    /\ VLen(v) = rs.total_shard_count
    /\ \A i, j \in Present(v) : ShardLen(h, v[i]) = ShardLen(h, v[j])
    /\ \A i \in Present(v) : ShardLen(h, v[i]) >= 1

Untouched == shards = pre.shards /\ heap = pre.heap

\* C3: with p < N shards present, p = 0 included, decode_missing returns
\* Err(NotEnoughShards) and changes no slot and no byte.
C3_TooFewPresent ==
    (call.op = "decode" /\ FullRange(call.a, call.b)
        /\ PresentWellFormed(pre.shards, pre.heap)
        /\ number_present(pre.shards) < rs.data_shard_count)
      => (out = "Err(NotEnoughShards)" /\ Untouched)

\* the range of the last call lies inside shards of len bytes
RangeInside(len) ==
    /\ call.b # 0
    /\ calc_offset(call.a) + (IF call.b = None THEN len ELSE call.b) <= len

\* C4: with all N+K shards present, equally long and not empty,
\* decode_missing returns Ok and changes no slot and no byte, whether the
\* parity agrees with the data or not.
C4_AllPresentNoOp ==
    (call.op = "decode" /\ WellFormed(pre.shards, pre.heap)
        /\ RangeInside(ShardLen(pre.heap, pre.shards[0])))
      => (out = "Ok" /\ Untouched)

C4_Witness ==
    /\ call.op = "decode" /\ WellFormed(pre.shards, pre.heap)
    /\ RangeInside(ShardLen(pre.heap, pre.shards[0]))
    /\ out = "Ok"
    /\ is_parity_correct(rs, heap, shards, call.a, call.b) = "false"

\* the bytes <<shard, position>> that differ from the bytes encoded
Altered ==
    {ip \in UNION {{<<i, p>> : p \in DOMAIN enc.master[i]} : i \in DOMAIN enc.master} :
        heap[shards[ip[1]]].data[ip[2]] # enc.master[ip[1]][ip[2]]}

\* the last call has the range of the encoding
RangeAsEncoded ==
    /\ calc_offset(call.a) = enc.offset
    /\ call.b # 0
    /\ (IF call.b = None THEN VLen(enc.master[0]) ELSE call.b) = enc.byte_count

\* C5: after encode_parity, one byte of one parity shard, inside the range
\* checked, changed to another value makes is_parity_correct return false.
C5_AlteredParityDetected ==
    (call.op = "verify" /\ enc.valid /\ AllPresent /\ RangeAsEncoded
        /\ Cardinality(Altered) = 1
        /\ \A ip \in Altered : /\ ip[1] >= rs.data_shard_count
                               /\ InRange(ip[2], enc.offset, enc.byte_count))
      => out = "false"

C5_Witness ==
    /\ call.op = "verify" /\ enc.valid /\ AllPresent /\ RangeAsEncoded
    /\ Cardinality(Altered) = 1
    /\ \A ip \in Altered : /\ ip[1] = rs.data_shard_count + 1
                           /\ InRange(ip[2], enc.offset, enc.byte_count)
    /\ enc.offset = 1
    /\ out = "false"

\* C6: the codec (5, 5) encodes the data shards [0,1], [4,5], [2,3], [6,7],
\* [8,9] to the parity shards [12,13], [10,11], [14,15], [90,91], [94,95].
C6_KnownVector ==
    call.op = "encode"
      => /\ out = "Ok"
         /\ \A i \in 0..4 : heap[shards[i]].data = KnownData[i]
         /\ \A i \in 0..4 : heap[shards[5 + i]].data = KnownParity[i]

C6_Witness ==
    /\ call.op = "encode"
    /\ out = "Ok"
    /\ rs.data_shard_count = 5 /\ rs.parity_shard_count = 5
    /\ \A i \in 5..9 : pre.heap[pre.shards[i]].data = Vec(<<255, 255>>)
    /\ heap[shards[8]].data = Vec(<<90, 91>>)

\* C7: new(N, K) fails for N = 0 (too few data shards), for K = 0 with
\* N >= 1 (too few parity shards) and for N + K > 256 (too many shards);
\* for N >= 1, K >= 1, N + K <= 256 it builds the codec of N, K and N + K
\* shards.
C7_NewChecksCounts ==
    call.op = "new" =>
        /\ call.a = 0 => (out = "panic: Too few data shards" /\ ~rs.built)
        /\ (call.a >= 1 /\ call.b = 0)
              => (out = "panic: Too few pairty shards" /\ ~rs.built)
        /\ (call.a >= 1 /\ call.b >= 1 /\ call.a + call.b > 256)
              => (out = "panic: Too many shards, max is 256" /\ ~rs.built)
        /\ (call.a >= 1 /\ call.b >= 1 /\ call.a + call.b <= 256)
              => /\ out = "Ok"
                 /\ rs.built
                 /\ rs.data_shard_count = call.a
                 /\ rs.parity_shard_count = call.b
                 /\ rs.total_shard_count = call.a + call.b

C7_Witness ==
    /\ call.op = "new"
    /\ call.a + call.b = 256
    /\ out = "Ok"
    /\ rs.total_shard_count = 256

\* C8: the first N rows of the generator matrix built by new(N, K) are the
\* N x N identity.
C8_Systematic ==
    rs.built =>
        sub_matrix(rs.matrix, 0, 0, rs.data_shard_count, rs.data_shard_count)
            = identity(rs.data_shard_count)

C8_Witness ==
    /\ rs.built
    /\ rs.data_shard_count = 3
    /\ rs.parity_shard_count = 3
    /\ call.op = "new"

\* C9: any N distinct rows of the generator matrix form an invertible
\* matrix: the inversion of decode_missing never fails.
C9_RowsInvertible ==
    call.op = "invert" => out = "Ok"

C9_Witness ==
    /\ call.op = "invert"
    /\ out = "Ok"
    /\ rs.data_shard_count = 3
    /\ call.a = {1, 4, 5}

\* XOR over i in from..N-1 of row[i] * (byte p of data shard i)
RECURSIVE RowTimesData(_, _, _, _)
RowTimesData(row, data, p, from) ==
    IF from >= rs.data_shard_count THEN 0
    ELSE add(mul(row[from], data[from][p]), RowTimesData(row, data, p, from + 1))

\* C10: after the coding loop of encode_parity every parity byte of the
\* range is the XOR over the inputs i of rows[r][i] * inputs[i][p],
\* whatever the parity buffers held before.
C10_ParityIsRowTimesData ==
    (call.op = "encode" /\ out = "Ok") =>
        \A r \in 0..rs.parity_shard_count - 1 :
            \A p \in DOMAIN heap[shards[rs.data_shard_count + r]].data :
                InRange(p, enc.offset, enc.byte_count) =>
                    heap[shards[rs.data_shard_count + r]].data[p]
                        = RowTimesData(parity_rows(rs)[r], Contents(pre.shards, pre.heap), p, 0)

C10_Witness ==
    /\ call.op = "encode" /\ out = "Ok"
    /\ rs.data_shard_count = 2
    /\ enc.offset = 1
    /\ pre.heap[pre.shards[2]].data[1] = 255
    /\ heap[shards[2]].data[1] \notin {0, 255}
    /\ heap[shards[0]].data[1] # 0 /\ heap[shards[1]].data[1] # 0

\* C11: encoding is linear: the parity of the byte-wise XOR of two data sets
\* of one shape is the byte-wise XOR of the parity of the one and the parity
\* of the other.
C11_EncodeLinear ==
    call.op = "encode_xor" =>
        /\ out = "Ok"
        /\ \A i \in 0..rs.data_shard_count - 1 : \A p \in DOMAIN enc.master[i] :
              heap[shards[i]].data[p] = add(enc.master[i][p], heap[other.v[i]].data[p])
        /\ \A i \in rs.data_shard_count..rs.total_shard_count - 1 :
              \A p \in DOMAIN enc.master[i] :
                  heap[shards[i]].data[p] = add(enc.master[i][p], heap[other.v[i]].data[p])

C11_Witness ==
    /\ call.op = "encode_xor"
    /\ out = "Ok"
    /\ rs.data_shard_count = 2
    /\ VLen(enc.master[0]) = 2
    /\ enc.master[0][0] = 255 /\ heap[other.v[0]].data[0] = 1
    /\ enc.master[1][0] = 1 /\ heap[other.v[1]].data[0] = 255
    /\ enc.master[2][0] # 0 /\ heap[other.v[2]].data[0] # 0
    /\ heap[shards[2]].data[0] # 0

\* the last step is a call of encode_parity, is_parity_correct or
\* decode_missing on the caller's shard vector
LibCall == call.op \in {"encode", "verify", "decode"}

Panics ==
    {"panic: Incorrect number of shards", "panic: Shards are of different sizes",
     "panic: Shards too small", "panic: Byte count is zero",
     "panic: No shards are present", "panic: index out of bounds",
     "panic: unwrap on SingularMatrix", "panic: explicit panic"}

\* the length of the first present shard before the last call, None when
\* there is none
FirstLen ==
    IF Present(pre.shards) = {} THEN None
    ELSE ShardLen(pre.heap, pre.shards[Nth(Present(pre.shards), 0)])

\* the byte count the last call asked for
ByteCount == IF call.b # None THEN call.b ELSE FirstLen

\* two of the slots S hold shards of different lengths
LengthsDiffer(S) ==
    \E i, j \in S : ShardLen(pre.heap, pre.shards[i]) # ShardLen(pre.heap, pre.shards[j])

\* C12: encode_parity, is_parity_correct and decode_missing reject a shard
\* vector of fewer or of more than N + K slots, with or without absent
\* slots, and change nothing; the rejection is "Incorrect number of shards"
\* whenever the byte count asked for is not zero.
C12_WrongCountRejected ==
    (LibCall /\ VLen(pre.shards) # rs.total_shard_count)
      => /\ out \in Panics
         /\ Untouched
         /\ ByteCount \notin {0, None} => out = "panic: Incorrect number of shards"

C12_Witness ==
    /\ call.op = "decode"
    /\ VLen(pre.shards) = rs.total_shard_count + 1
    /\ Present(pre.shards) # DOMAIN pre.shards
    /\ out = "panic: Incorrect number of shards"

\* C13 as stated: a vector of N + K shards two of which (two present ones,
\* for decode_missing) differ in length is rejected as "Shards are of
\* different sizes".
C13_DifferentSizes ==
    /\ (call.op \in {"encode", "verify"} /\ VLen(pre.shards) = rs.total_shard_count
            /\ LengthsDiffer(DOMAIN pre.shards))
          => out = "panic: Shards are of different sizes"
    /\ (call.op = "decode" /\ VLen(pre.shards) = rs.total_shard_count
            /\ LengthsDiffer(Present(pre.shards)))
          => out = "panic: Shards are of different sizes"

\* C13 (amended): a vector of N + K shards two of which (two present ones,
\* for decode_missing) differ in length is rejected as "Shards are of
\* different sizes" when the byte count asked for is not zero, and as "Byte
\* count is zero" when it is; nothing is changed.
C13_DifferentSizesNonZeroCount ==
    /\ (call.op \in {"encode", "verify"} /\ VLen(pre.shards) = rs.total_shard_count
            /\ LengthsDiffer(DOMAIN pre.shards))
          => /\ out = (IF ByteCount = 0 THEN "panic: Byte count is zero"
                       ELSE "panic: Shards are of different sizes")
             /\ Untouched
    /\ (call.op = "decode" /\ VLen(pre.shards) = rs.total_shard_count
            /\ LengthsDiffer(Present(pre.shards)))
          => /\ out = (IF ByteCount = 0 THEN "panic: Byte count is zero"
                       ELSE "panic: Shards are of different sizes")
             /\ Untouched

C13_Witness ==
    /\ call.op = "decode"
    /\ rs.total_shard_count = 3
    /\ VLen(pre.shards) = 3
    /\ Present(pre.shards) = {1, 2}
    /\ ShardLen(pre.heap, pre.shards[1]) = 1
    /\ ShardLen(pre.heap, pre.shards[2]) = 2
    /\ out = "panic: Shards are of different sizes"

\* C14 as stated: encode_parity and is_parity_correct on N + K shards the
\* first of which is empty, or with a byte count of 0, and decode_missing on
\* N + K slots whose first present shard is empty, end in "Byte count is
\* zero".
C14_EmptyFirstShard ==
    /\ (call.op \in {"encode", "verify"} /\ VLen(pre.shards) = rs.total_shard_count
            /\ (FirstLen = 0 \/ call.b = 0))
          => out = "panic: Byte count is zero"
    /\ (call.op = "decode" /\ VLen(pre.shards) = rs.total_shard_count /\ FirstLen = 0)
          => out = "panic: Byte count is zero"

\* C14 (amended): a call whose byte count is zero (byte_count is Some(0), or
\* is None and the first present shard is empty) ends in "Byte count is
\* zero"; a call with a byte count of 1 or more on a vector whose first
\* present shard is empty is rejected by the size checks; no call that
\* returns has coded a range of zero bytes.
C14_ZeroByteCount ==
    /\ (LibCall /\ ByteCount = 0) => (out = "panic: Byte count is zero" /\ Untouched)
    /\ (LibCall /\ FirstLen = 0 /\ ByteCount # 0)
          => /\ out \in {"panic: Incorrect number of shards",
                         "panic: Shards are of different sizes",
                         "panic: Shards too small"}
             /\ Untouched
    /\ (LibCall /\ out \notin Panics) => (ByteCount # None /\ ByteCount >= 1)

C14_Witness ==
    /\ call.op = "decode"
    /\ call.b = None
    /\ VLen(pre.shards) = rs.total_shard_count
    /\ pre.shards[0] = NoShard
    /\ FirstLen = 0
    /\ out = "panic: Byte count is zero"

\* C15: a call of encode_parity, is_parity_correct or decode_missing that
\* ends in a panic or in Err(NotEnoughShards) leaves every slot and every
\* byte of every shard as it was before the call.
C15_ErrorsChangeNothing ==
    (LibCall /\ out \in Panics \cup {"Err(NotEnoughShards)"}) => Untouched

C15_Witness ==
    /\ call.op = "decode"
    /\ out = "Err(NotEnoughShards)"
    /\ Cardinality(Present(pre.shards)) = 1
    /\ Untouched

\* C16: a successful encode_parity changes only the bytes offset ..
\* offset + byte_count - 1 of the K parity shards; is_parity_correct changes
\* nothing; a successful decode_missing leaves every slot that was present,
\* and the buffer it holds, as before.
C16_FrameEffects ==
    /\ (call.op = "encode" /\ out = "Ok")
          => /\ shards = pre.shards
             /\ DOMAIN heap = DOMAIN pre.heap
             /\ \A i \in DOMAIN shards :
                   /\ heap[shards[i]].rc = pre.heap[shards[i]].rc
                   /\ DOMAIN heap[shards[i]].data = DOMAIN pre.heap[shards[i]].data
                   /\ \A p \in DOMAIN heap[shards[i]].data :
                         (i < rs.data_shard_count \/ p < enc.offset
                             \/ p >= enc.offset + enc.byte_count)
                           => heap[shards[i]].data[p] = pre.heap[shards[i]].data[p]
    /\ call.op = "verify" => Untouched
    /\ (call.op = "decode" /\ out = "Ok")
          => \A i \in Present(pre.shards) :
                /\ shards[i] = pre.shards[i]
                /\ heap[shards[i]] = pre.heap[shards[i]]

C16_Witness ==
    /\ call.op = "encode" /\ out = "Ok"
    /\ rs.parity_shard_count = 2
    /\ enc.offset = 1 /\ enc.byte_count = 1
    /\ heap[shards[0]].data = pre.heap[pre.shards[0]].data
    /\ heap[shards[0]].data[1] = 1
    /\ pre.heap[pre.shards[2]].data[0] = 255 /\ pre.heap[pre.shards[2]].data[1] = 255
    /\ heap[shards[2]].data[0] = 255
    /\ heap[shards[2]].data[1] # 255

\* C17: the clone of a codec is equal to the codec, and two codecs are equal
\* exactly when they were built from the same N and the same K.
C17_EqualCodecs ==
    /\ call.op = "clone" => out = "true"
    /\ call.op = "eq"
          => (out = "true"
                <=> /\ call.a.data_shard_count = rs.data_shard_count
                    /\ call.a.parity_shard_count = rs.parity_shard_count)

C17_Witness ==
    /\ call.op = "clone"
    /\ out = "true"
    /\ rs.data_shard_count = 4
    /\ rs.parity_shard_count = 2
    /\ call.a.matrix[5] = rs.matrix[5]

\* the buffers of the vector v
BuffersOf(v) == {v[i] : i \in Present(v)}

\* C18: deep_clone_shards and deep_clone_option_shards return a vector of
\* the same length, absent where the original is absent, of buffers with
\* equal bytes that are not buffers of the original, every original and
\* every copy owned once; a later write to either vector leaves the other
\* unchanged.  clone() returns the same buffers, owned twice each.
C18_DeepCloneSharesNothing ==
    /\ call.op \in {"deep_clone_shards", "deep_clone_option_shards"}
          => /\ shards = pre.shards
             /\ DOMAIN other.v = DOMAIN shards
             /\ Present(other.v) = Present(shards)
             /\ Contents(other.v, heap) = Contents(pre.shards, pre.heap)
             /\ Contents(shards, heap) = Contents(pre.shards, pre.heap)
             /\ BuffersOf(other.v) \cap BuffersOf(shards) = {}
             /\ Cardinality(BuffersOf(other.v)) = Cardinality(Present(shards))
             /\ \A id \in BuffersOf(other.v) \cup BuffersOf(shards) : heap[id].rc = 1
    /\ (call.op = "write_other" /\ other.kind = "deep")
          => Contents(shards, heap) = Contents(pre.shards, pre.heap)
    /\ (call.op = "write" /\ other.kind = "deep")
          => Contents(other.v, heap) = Contents(other.v, pre.heap)
    /\ call.op = "clone_shards"
          => /\ other.v = shards
             /\ shards = pre.shards
             /\ \A id \in BuffersOf(shards) : heap[id].rc = 2

C18_Witness ==
    /\ call.op = "write_other"
    /\ other.kind = "deep"
    /\ Cardinality(Present(shards)) = 2
    /\ Cardinality(DOMAIN shards) = 3
    /\ \E i \in Present(shards) : heap[other.v[i]].data # heap[shards[i]].data
    /\ Contents(shards, heap) = Contents(pre.shards, pre.heap)

\* C19: after a successful decode_missing every slot that was absent holds
\* a buffer allocated by the call and owned by that slot alone, and every
\* slot that was present holds the buffer it held, with the owners it had.
C19_DecodedShardsOwnedOnce ==
    (call.op = "decode" /\ out = "Ok")
      => /\ \A i \in AbsentBefore :
               /\ shards[i] # NoShard
               /\ shards[i] \notin DOMAIN pre.heap
               /\ heap[shards[i]].rc = 1
               /\ \A j \in DOMAIN shards \ {i} : shards[j] # shards[i]
               /\ shards[i] \notin BuffersOf(other.v)
         /\ \A i \in Present(pre.shards) :
               /\ shards[i] = pre.shards[i]
               /\ heap[shards[i]].rc = pre.heap[shards[i]].rc
         /\ DOMAIN heap = DOMAIN pre.heap \cup {shards[i] : i \in AbsentBefore}

C19_Witness ==
    /\ call.op = "decode" /\ out = "Ok"
    /\ other.kind = "clone"
    /\ Present(other.v) = {0, 1, 2}
    /\ AbsentBefore = {0, 2}
    /\ rs.data_shard_count = 1
    /\ heap[shards[0]].rc = 1
    /\ heap[shards[1]].rc = 2
    /\ heap[shards[2]].rc = 1
    /\ heap[shards[0]].data = heap[other.v[0]].data
    /\ shards[0] # other.v[0]

\* the first byte of the range the last call asked for
Offset == IF call.a = None THEN 0 ELSE call.a

\* the last call asked for the bytes that were encoded
SameRangeAsEncoded ==
    /\ enc.valid
    /\ Offset = enc.offset
    /\ ByteCount = enc.byte_count

\* C20: for every range of 1 or more bytes inside the shards, is_parity_correct
\* over the range encode_parity was given returns true, and decode_missing
\* over that range, after the loss of at most K shards, returns Ok with the
\* bytes of the range of every shard as they were encoded; a call with a
\* range that ends beyond the shards ends in "Shards too small".
C20_Ranges ==
    /\ (call.op = "encode" /\ WellFormed(pre.shards, pre.heap) /\ ByteCount >= 1
            /\ Offset + ByteCount <= FirstLen)
          => (out = "Ok" /\ enc.offset = Offset /\ enc.byte_count = ByteCount)
    /\ (call.op = "verify" /\ SameRangeAsEncoded /\ Contents(shards, heap) = enc.master)
          => out = "true"
    /\ (call.op = "decode" /\ SameRangeAsEncoded /\ PresentAsEncoded
            /\ Cardinality(AbsentBefore) <= rs.parity_shard_count)
          => /\ out = "Ok"
             /\ \A i \in DOMAIN shards : \A p \in Offset..Offset + ByteCount - 1 :
                   heap[shards[i]].data[p] = enc.master[i][p]
    /\ (LibCall /\ PresentWellFormed(pre.shards, pre.heap) /\ Present(pre.shards) # {}
            /\ ByteCount >= 1 /\ Offset + ByteCount > FirstLen)
          => (out = "panic: Shards too small" /\ Untouched)

C20_Witness ==
    /\ call.op = "decode" /\ out = "Ok"
    /\ SameRangeAsEncoded /\ PresentAsEncoded
    /\ call.a = 1 /\ call.b = 1
    /\ rs.data_shard_count = 2
    /\ AbsentBefore = {0}
    /\ heap[shards[0]].data[1] = 255
    /\ heap[shards[0]].data[0] = 0 /\ enc.master[0][0] = 1
    /\ enc.master[2][1] # 0

\* the N lowest-indexed slots present before the last call
FirstPresent ==
    {Nth(Present(pre.shards), k) : k \in 0..rs.data_shard_count - 1}

\* C21: two decode_missing calls on vectors with the same slots present and
\* the same bytes in the N lowest-indexed present shards re-create the same
\* data shards, whatever the other present shards hold, and leave those as
\* they were.
C21_FirstPresentDecide ==
    (call.op = "decode_both" /\ out = "Ok" /\ call.b = "Ok"
        /\ \A i \in FirstPresent :
              pre.heap[pre.shards[i]].data = pre.heap[pre.other[i]].data)
      => /\ \A i \in 0..rs.data_shard_count - 1 :
               heap[shards[i]].data = heap[other.v[i]].data
         /\ \A i \in Present(pre.shards) \ FirstPresent :
               /\ shards[i] = pre.shards[i]
               /\ other.v[i] = pre.other[i]
               /\ heap[shards[i]].data = pre.heap[pre.shards[i]].data
               /\ heap[other.v[i]].data = pre.heap[pre.other[i]].data

C21_Witness ==
    /\ call.op = "decode_both" /\ out = "Ok" /\ call.b = "Ok"
    /\ enc.valid
    /\ rs.data_shard_count = 1
    /\ Present(pre.shards) = {1, 2}
    /\ pre.heap[pre.shards[1]].data = pre.heap[pre.other[1]].data
    /\ pre.heap[pre.shards[2]].data # pre.heap[pre.other[2]].data
    /\ heap[shards[0]].data = heap[other.v[0]].data
    /\ heap[shards[0]].data = enc.master[0]
    /\ heap[shards[0]].data[0] = 255
    /\ heap[other.v[2]].data # heap[shards[2]].data

\* a slot absent before the step is present after it
SlotFilled ==
    \E i \in DOMAIN shards \cap DOMAIN shards' :
        shards[i] = NoShard /\ shards'[i] # NoShard

\* the step is a decode_missing call
DecodeStep == call'.op = "decode" /\ pre' = Snapshot

\* C22: an absent slot becomes present only in a decode_missing call that
\* returns Ok; after such a call every slot is present, and the same call
\* again returns Ok and changes nothing; after a call that ends in an error
\* every slot that was absent is still absent.
C22_FilledOnlyOnSuccess ==
    [][/\ SlotFilled => (DecodeStep /\ out' = "Ok")
       /\ (DecodeStep /\ out' = "Ok") => \A i \in DOMAIN shards' : shards'[i] # NoShard
       /\ (DecodeStep /\ out' # "Ok")
             => \A i \in DOMAIN shards : shards[i] = NoShard => shards'[i] = NoShard
       /\ (call.op = "decode" /\ out = "Ok" /\ DecodeStep
             /\ call'.a = call.a /\ call'.b = call.b)
             => (out' = "Ok" /\ shards' = shards /\ heap' = heap)]_vars

C22_Witness ==
    /\ call.op = "decode" /\ out = "Ok"
    /\ call.a = 1 /\ call.b = 1
    /\ Cardinality(AbsentBefore) = 2
    /\ \A i \in DOMAIN shards : shards[i] # NoShard

\* every parity byte of (v, h) is the XOR over the inputs i of
\* rows[r][i] * inputs[i][p]
ParityOfData(v, h) ==
    \A r \in 0..rs.parity_shard_count - 1 :
        \A p \in DOMAIN h[v[rs.data_shard_count + r]].data :
            h[v[rs.data_shard_count + r]].data[p]
                = RowTimesData(parity_rows(rs)[r], Contents(v, h), p, 0)

\* N+K shards of one byte: the data shards hold d, the parity shards f
OneByteHeap(d, f) ==
    [id \in 1..rs.total_shard_count |->
        [data |-> [b \in 0..0 |-> IF id - 1 < rs.data_shard_count THEN d[id - 1] ELSE f],
         rc   |-> 1]]

OneByteShards == [i \in 0..rs.total_shard_count - 1 |-> i + 1]

\* for some data the inputs coded in this order leave a wrong parity
WrongForSomeData(order) ==
    \E d \in [0..rs.data_shard_count - 1 -> ByteVals] :
        \E f \in ParityFill :
            ~ParityOfData(OneByteShards,
                          CodeInOrder(rs, OneByteHeap(d, f), OneByteShards, order, 1))

AllCoded == stage = "partial" /\ Len(Order) = rs.data_shard_count

Ascending(order) == \A k \in 1..Len(order) : order[k] = k - 1

\* C23 as stated: the N inputs coded one at a time leave the parity of a
\* full encode_parity when the order is 0,1,...,N-1; every other order leaves
\* a wrong parity for some data; no call reports an error.
C23_OnlyAscending ==
    AllCoded =>
        /\ Ascending(Order) => ParityOfData(shards, heap)
        /\ ~Ascending(Order) => WrongForSomeData(Order)
        /\ out = ""

\* C23 (amended): the N inputs coded one at a time leave the parity of a
\* full encode_parity when input 0 is coded first, the other inputs in any
\* order; every order that does not begin with input 0 leaves a wrong parity
\* for some data; no call reports an error.
C23_FirstInputFirst ==
    AllCoded =>
        /\ Order[1] = 0 => ParityOfData(shards, heap)
        /\ Order[1] # 0 => WrongForSomeData(Order)
        /\ out = ""

C23_Witness ==
    /\ AllCoded
    /\ Order = <<0, 2, 1>>
    /\ \A i \in 0..2 : pre.heap[pre.shards[i]].data[0] = 255
    /\ pre.heap[pre.shards[3]].data[0] = 255
    /\ ParityOfData(shards, heap)
    /\ heap[shards[3]].data # pre.heap[pre.shards[3]].data

\* the bytes the last call ranges over, in shards of len bytes
CallRange(len) ==
    {p \in 0..len - 1 :
        /\ p >= calc_offset(call.a)
        /\ p < calc_offset(call.a) + (IF call.b = None THEN len ELSE call.b)}

\* C24: after encode_parity, one byte of one data shard, inside the range
\* encoded and the range verified, changed to another value makes
\* is_parity_correct return false; every entry of the K parity rows of the
\* generator matrix is non-zero.
C24_AlteredDataDetected ==
    /\ (call.op = "verify" /\ enc.valid /\ AllPresent
          /\ RangeInside(VLen(enc.master[0]))
          /\ Cardinality(Altered) = 1
          /\ \A ip \in Altered : /\ ip[1] < rs.data_shard_count
                                 /\ ip[2] >= enc.offset
                                 /\ ip[2] < enc.offset + enc.byte_count
                                 /\ ip[2] \in CallRange(VLen(enc.master[0])))
         => out = "false"
    /\ rs.built =>
         \A r \in 0..rs.parity_shard_count - 1 :
             \A c \in 0..rs.data_shard_count - 1 : parity_rows(rs)[r][c] # 0

C24_Witness ==
    /\ call.op = "verify" /\ enc.valid /\ AllPresent
    /\ rs.data_shard_count = 3
    /\ call.a = 1 /\ call.b = 1
    /\ enc.offset = 0 /\ enc.byte_count = 2
    /\ Altered = {<<2, 1>>}
    /\ out = "false"

\* the last call was a decode_missing that got past the checks of the byte
\* range, of the number of slots and of the lengths, with some slot absent
\* and no fewer than N shards present
PastTooFewCheck ==
    /\ call.op = "decode"
    /\ rs.built
    /\ calc_byte_count_option_shards(pre.heap, pre.shards, call.b).panic = ""
    /\ check_buffer_and_sizes_option_shards(
           rs, pre.heap, pre.shards, calc_offset(call.a),
           calc_byte_count_option_shards(pre.heap, pre.shards, call.b).v) = ""
    /\ number_present(pre.shards) # rs.total_shard_count
    /\ number_present(pre.shards) >= rs.data_shard_count

AbsentData == {i \in 0..rs.data_shard_count - 1 : pre.shards[i] = NoShard}

AbsentParity ==
    {i \in rs.data_shard_count..rs.total_shard_count - 1 : pre.shards[i] = NoShard}

\* C25: in a decode_missing call that gets past the check of the number of
\* present shards with some slot absent, at most K data slots and at most K
\* parity slots are absent, no write to outputs or matrix_rows is out of
\* bounds, and no data slot is absent when the parity pass reads the inputs.
C25_OutputsInBounds ==
    PastTooFewCheck =>
        /\ Cardinality(AbsentData) <= rs.parity_shard_count
        /\ Cardinality(AbsentParity) <= rs.parity_shard_count
        /\ out \notin {"panic: index out of bounds", "panic: explicit panic"}
        /\ \A i \in 0..rs.data_shard_count - 1 : shards[i] # NoShard

C25_Witness ==
    /\ PastTooFewCheck
    /\ rs.data_shard_count = 1 /\ rs.parity_shard_count = 2
    /\ AbsentData = {0}
    /\ AbsentParity = {1}
    /\ out = "Ok"
    /\ Present(shards) = {0, 1, 2}
=============================================================================
